---- MODULE Spec2Model ----
(***************************************************************************)
(* Model of the SparkETLPipeline repository: the CSV runner                *)
(* (etl/csv_runner.py), the pandas runner (etl/pandas_runner.py), the      *)
(* Spark ingest and its orchestrators (etl/ingest.py, etl/run.py,          *)
(* etl/dag.py, etl/simple_runner.py) and the Flask routes (main.py).       *)
(*                                                                         *)
(* A text field is a sequence of one-character strings, a row is a         *)
(* sequence of fields, a CSV file is a sequence of rows whose first row is *)
(* the header.  The file system is a function from paths to file contents. *)
(***************************************************************************)
EXTENDS Integers, Sequences, FiniteSets, TLC

----------------------------------------------------------------------------
(* Bounds of the model *)

\* largest number of data rows of an input table in Spec
MaxRows == 6

\* largest number of data rows of an input table in SpecEnv
MaxEnvRows == 2

----------------------------------------------------------------------------
(* Text *)

\* characters removed by str.strip()
Whitespace == {" ", "\t"}

RECURSIVE LStrip(_)
LStrip(s) ==
    IF s = <<>> THEN <<>>
    ELSE IF Head(s) \in Whitespace THEN LStrip(Tail(s))
    ELSE s

RECURSIVE RStrip(_)
RStrip(s) ==
    IF s = <<>> THEN <<>>
    ELSE IF s[Len(s)] \in Whitespace THEN RStrip(SubSeq(s, 1, Len(s) - 1))
    ELSE s

\* str.strip(): drop leading and trailing whitespace
Strip(s) == RStrip(LStrip(s))

\* truth value of a Python string: non-empty
Truthy(s) == s # <<>>

ImageID == <<"I", "m", "a", "g", "e", "I", "D">>
LabelName == <<"L", "a", "b", "e", "l", "N", "a", "m", "e">>
Confidence == <<"C", "o", "n", "f", "i", "d", "e", "n", "c", "e">>

\* list.index(name): the 0-based position of the first occurrence, or
\* ValueError when the name is absent
ValueError == 0 - 1

RECURSIVE IndexFrom(_, _, _)
IndexFrom(list, name, i) ==
    IF i >= Len(list) THEN ValueError
    ELSE IF list[i + 1] = name THEN i
    ELSE IndexFrom(list, name, i + 1)

\* the lookup that starts at the second element
ListIndex_FromSecond(list, name) == IndexFrom(list, name, 1)

ListIndex(list, name) == IndexFrom(list, name, 0)

----------------------------------------------------------------------------
(* Paths and directories *)

NoTs == 0 - 1

Dir(base, ts) == [base |-> base, ts |-> ts]
Path(dir, name, ts) == [dir |-> dir, name |-> name, ts |-> ts]

\* the working directory; os.path.dirname of a bare file name is ""
EmptyDir == Dir("", NoTs)
DataDir == Dir("data", NoTs)
OutputRoot == Dir("data/output", NoTs)
CsvDir(ts) == Dir("data/output/csv_", ts)
ElsewhereDir == Dir("out", NoTs)

DefaultInput == Path(DataDir, "labels.csv", NoTs)
fixed_output_path == Path(OutputRoot, "latest_processed.csv", NoTs)
CsvPath(ts) == Path(CsvDir(ts), "processed_data.csv", NoTs)
ParquetPath(ts) == Path(OutputRoot, "parquet_", ts)

\* the value of an argument the caller does not pass
None == Path(Dir("None", NoTs), "None", NoTs)

\* os.path.dirname
Dirname(p) == p.dir

\* the directories os.makedirs(d, exist_ok=True) makes sure exist
Ancestors(d) ==
    IF d.base = "data/output/csv_" THEN {DataDir, OutputRoot, d}
    ELSE IF d = OutputRoot THEN {DataDir, OutputRoot}
    ELSE {d}

----------------------------------------------------------------------------
(* State *)

VARIABLES
    fs,                 \* the files: path -> content (sequence of rows)
    dirs,               \* the directories that exist
    writable,           \* whether the process may create or write entries
    now,                \* the clock, in seconds
    runs,               \* number of invocations started
    pc,                 \* position of the current invocation
    entry,              \* the entry point that was invoked
    input_path,
    output_path,
    reader,             \* rows the csv.reader has not yielded yet
    header,
    imageid_index,
    initial_count,
    transformed_count,
    filtered_count,
    sample_rows,
    result,             \* the value returned by the runner
    exc,                \* the exception that left the entry point, "" if none
    http,               \* the response of a Flask route
    spark,              \* the Spark session: "none", "active" or "stopped"
    fs0,                \* the files when the invocation started
    dirs0,              \* the directories when the invocation started
    prev,               \* what the caller keeps of its previous invocation
    other               \* the context of the thread that is not running

envVars == <<fs, dirs, writable, now>>
callVars == <<runs, pc, entry, input_path, output_path, fs0, dirs0, prev, other>>
csvVars == <<reader, header, imageid_index, initial_count, transformed_count,
             filtered_count, sample_rows>>
outVars == <<result, exc, http, spark>>
vars == <<envVars, callVars, csvVars, outVars>>

\* the set of elements of a sequence
Range(s) == {s[i] : i \in 1..Len(s)}

\* a write that adds the new content after what the file holds
WriteFile_Append(files, path, content) ==
    [p \in DOMAIN files \cup {path} |->
        IF p = path
        THEN (IF path \in DOMAIN files THEN files[path] ELSE <<>>) \o content
        ELSE files[p]]

\* open(path, 'w') and shutil.copy: the file holds exactly the new content
WriteFile(files, path, content) ==
    [p \in DOMAIN files \cup {path} |->
        IF p = path THEN content ELSE files[p]]

\* a file opened for appending keeps what it holds
OpenForWrite_Append(files, path) ==
    IF path \in DOMAIN files THEN files ELSE WriteFile(files, path, <<>>)

\* open(path, 'w'): the file exists and is empty
OpenForWrite(files, path) == WriteFile(files, path, <<>>)

Pending == [pending |-> TRUE]
NoResponse == [pending |-> TRUE]

----------------------------------------------------------------------------
(* etl/csv_runner.py: run_csv_etl *)

\* the failure dictionary of every failing return path
Failure(message) ==
    [success |-> FALSE, error |-> message, timestamp |-> now]

\* the dictionary returned when the run completes
Success(initial, transformed, filtered, sample, out) ==
    [success |-> TRUE,
     timestamp |-> now,
     statistics |-> [initial_count |-> initial,
                     transformed_count |-> transformed,
                     filtered_count |-> filtered],
     sample_rows |-> sample,
     output_path |-> out]

\* the condition without the strip()
RowAccepted_NoStrip(row, index) ==
    index < Len(row) /\ Truthy(row[index + 1])

\* the condition of line 85: the ImageID position is inside the row and the
\* stripped value is a non-empty string
RowAccepted(row, index) ==
    index < Len(row) /\ Truthy(Strip(row[index + 1]))

\* the dictionary with only the columns the row has
SampleRow_Unpadded(hdr, row) ==
    [col \in {hdr[k] : k \in {j \in 1..Len(hdr) : j <= Len(row)}} |->
        LET i == CHOOSE k \in 1..Len(hdr) :
                    /\ hdr[k] = col
                    /\ k <= Len(row)
                    /\ \A j \in (k + 1)..Len(hdr) : ~(hdr[j] = col /\ j <= Len(row))
        IN  row[i]]

\* the dictionary built for a sampled row: every header column, "" for the
\* positions the row does not have (a later duplicate column wins)
SampleRow(hdr, row) ==
    [col \in Range(hdr) |->
        LET i == CHOOSE k \in 1..Len(hdr) :
                    /\ hdr[k] = col
                    /\ \A j \in (k + 1)..Len(hdr) : hdr[j] # col
        IN  IF i - 1 < Len(row) THEN row[i] ELSE <<>>]

\* the sample with the limit compared strictly
SampleAfter_Strict(sample, transformed, hdr, row) ==
    IF transformed < 5 THEN Append(sample, SampleRow(hdr, row)) ELSE sample

\* the sample after a row was accepted and counted (lines 89-97)
SampleAfter(sample, transformed, hdr, row) ==
    IF transformed <= 5 THEN Append(sample, SampleRow(hdr, row)) ELSE sample

\* the row written with its cells stripped
WriteRow_Stripped(content, row) ==
    Append(content, [i \in 1..Len(row) |-> Strip(row[i])])

\* writer.writerow(row): the row becomes the last line of the file
WriteRow(content, row) == Append(content, row)

\* the filtered counter incremented for every row
FilteredAfter_Always(filtered, accepted) == filtered + 1

\* the filtered counter after a row (line 99)
FilteredAfter(filtered, accepted) ==
    IF accepted THEN filtered ELSE filtered + 1

\* os.makedirs(d, exist_ok=True): "ok", or the exception it raises
Makedirs(d) ==
    IF d = EmptyDir THEN "FileNotFoundError"
    ELSE IF Ancestors(d) \subseteq dirs THEN "ok"
    ELSE IF ~writable THEN "PermissionError"
    ELSE "ok"

\* the locals and the position of the running thread
Context ==
    [pc |-> pc, entry |-> entry, input_path |-> input_path,
     output_path |-> output_path, fs0 |-> fs0, dirs0 |-> dirs0, prev |-> prev,
     reader |-> reader, header |-> header, imageid_index |-> imageid_index,
     initial_count |-> initial_count, transformed_count |-> transformed_count,
     filtered_count |-> filtered_count, sample_rows |-> sample_rows,
     result |-> result, exc |-> exc, http |-> http, spark |-> spark]

\* a call of an entry point with its arguments
Invoke(e, inp, out) ==
    /\ pc = "idle"
    /\ pc' = "prepare"
    /\ runs' = runs + 1
    /\ entry' = e
    /\ input_path' = inp
    /\ output_path' = out
    /\ fs0' = fs
    /\ dirs0' = dirs
    /\ prev' = [entry |-> entry, output_path |-> output_path,
                 result |-> result, exc |-> exc, fs0 |-> fs0]
    /\ reader' = <<>>
    /\ header' = <<>>
    /\ imageid_index' = ValueError
    /\ initial_count' = 0
    /\ transformed_count' = 0
    /\ filtered_count' = 0
    /\ sample_rows' = <<>>
    /\ result' = Pending
    /\ exc' = ""
    /\ http' = NoResponse
    /\ spark' = "none"
    /\ UNCHANGED <<envVars, other>>

CsvEntries == {"run_csv_etl", "api_run_etl", "run_etl"}

\* the preparation that creates the output directory without looking at
\* the input
PrepareOutcome_NoCheck(inp, dir) == Makedirs(dir)

\* the existence check followed by os.makedirs (csv_runner.py 33-48,
\* pandas_runner.py 32-46): "missing" when the input file does not exist,
\* else the outcome of os.makedirs
PrepareOutcome(inp, dir) ==
    IF inp \notin DOMAIN fs THEN "missing" ELSE Makedirs(dir)

\* lines 29-52: the defaults, the existence check and the output directory
CsvPrepare ==
    /\ pc = "prepare"
    /\ entry \in CsvEntries
    /\ LET inp == IF input_path = None THEN DefaultInput ELSE input_path
           dir == IF output_path = None THEN CsvDir(now)
                  ELSE Dirname(output_path)
           out == IF output_path = None THEN CsvPath(now) ELSE output_path
           outcome == PrepareOutcome(inp, dir)
       IN  /\ input_path' = inp
           /\ IF outcome = "missing"
              THEN /\ result' = Failure("Input file does not exist")
                   /\ pc' = "returned"
                   /\ UNCHANGED <<dirs, output_path, exc>>
              ELSE IF outcome # "ok"
              THEN /\ exc' = outcome
                   /\ pc' = "raised"
                   /\ UNCHANGED <<dirs, output_path, result>>
              ELSE /\ dirs' = dirs \cup Ancestors(dir)
                   /\ output_path' = out
                   /\ pc' = "open"
                   /\ UNCHANGED <<result, exc>>
    /\ UNCHANGED <<fs, writable, now, runs, entry, fs0, dirs0, prev, other, csvVars,
                   http, spark>>

\* lines 54-78: both files are opened, the header is copied and the ImageID
\* column is looked up
CsvOpen ==
    /\ pc = "open"
    /\ entry \in CsvEntries
    /\ IF ~writable
       THEN \* open(output_path, 'w') raises, caught at line 122
            /\ result' = Failure("PermissionError")
            /\ pc' = "returned"
            /\ UNCHANGED <<fs, csvVars>>
       ELSE LET truncated == OpenForWrite(fs, output_path)
                source == truncated[input_path]
            IN  IF source = <<>>
                THEN \* next(reader) raises StopIteration, caught at line 122
                     /\ fs' = truncated
                     /\ result' = Failure("")
                     /\ pc' = "returned"
                     /\ UNCHANGED csvVars
                ELSE LET hdr == Head(source)
                         index == ListIndex(hdr, ImageID)
                     IN  /\ fs' = WriteFile(truncated, output_path,
                                            WriteRow(truncated[output_path], hdr))
                         /\ header' = hdr
                         /\ imageid_index' = index
                         /\ IF index = ValueError
                            THEN /\ result' = Failure("CSV file does not contain an 'ImageID' column")
                                 /\ pc' = "returned"
                                 /\ UNCHANGED reader
                            ELSE /\ reader' = Tail(source)
                                 /\ pc' = "rows"
                                 /\ UNCHANGED result
                         /\ UNCHANGED <<initial_count, transformed_count,
                                        filtered_count, sample_rows>>
    /\ UNCHANGED <<dirs, writable, now, runs, entry, input_path, output_path,
                   fs0, dirs0, prev, other, exc, http, spark>>

\* lines 81-99: one iteration of the loop over the reader
CsvRow ==
    /\ pc = "rows"
    /\ reader # <<>>
    /\ LET row == Head(reader)
           accepted == RowAccepted(row, imageid_index)
       IN  /\ reader' = Tail(reader)
           /\ initial_count' = initial_count + 1
           /\ transformed_count' =
                 IF accepted THEN transformed_count + 1 ELSE transformed_count
           /\ filtered_count' = FilteredAfter(filtered_count, accepted)
           /\ fs' = IF accepted
                    THEN WriteFile(fs, output_path, WriteRow(fs[output_path], row))
                    ELSE fs
           /\ sample_rows' =
                 IF accepted
                 THEN SampleAfter(sample_rows, transformed_count + 1, header, row)
                 ELSE sample_rows
    /\ UNCHANGED <<dirs, writable, now, callVars, header, imageid_index, outVars>>

\* shutil.copy(src, dst): "ok", or the exception it raises
CopyOutcome(src, dst) ==
    IF src = dst THEN "SameFileError"
    ELSE IF Dirname(dst) \notin dirs THEN "FileNotFoundError"
    ELSE IF ~writable THEN "PermissionError"
    ELSE "ok"

\* write() of a file opened at offset 0: the content replaces what the file
\* holds from its start, and what the file holds beyond it stays
Overlay(existing, content) ==
    content \o SubSeq(existing, Len(content) + 1, Len(existing))

\* lines 101-103: the reader is exhausted, the files are closed, and
\* shutil.copy opens the output for reading and the latest path for writing
CsvCopy ==
    /\ pc = "rows"
    /\ reader = <<>>
    /\ IF CopyOutcome(output_path, fixed_output_path) = "ok"
       THEN /\ fs' = OpenForWrite(fs, fixed_output_path)
            /\ pc' = "copy"
            /\ UNCHANGED result
       ELSE /\ result' = Failure(CopyOutcome(output_path, fixed_output_path))
            /\ pc' = "returned"
            /\ UNCHANGED fs
    /\ UNCHANGED <<dirs, writable, now, runs, entry, input_path, output_path,
                   fs0, dirs0, prev, other, csvVars, exc, http, spark>>

\* lines 103-120: shutil.copy writes what the output holds to the latest
\* path, and the result is returned
CsvCopyWrite ==
    /\ pc = "copy"
    /\ fs' = WriteFile(fs, fixed_output_path,
                       Overlay(fs[fixed_output_path], fs[output_path]))
    /\ result' = Success(initial_count, transformed_count,
                         filtered_count, sample_rows, output_path)
    /\ pc' = "returned"
    /\ UNCHANGED <<dirs, writable, now, runs, entry, input_path, output_path,
                   fs0, dirs0, prev, other, csvVars, exc, http, spark>>

\* the input or the output resource raises OSError inside the loop, caught
\* at line 122
CsvIOError ==
    /\ pc = "rows"
    /\ reader # <<>>
    /\ result' = Failure("OSError")
    /\ pc' = "returned"
    /\ UNCHANGED <<envVars, runs, entry, input_path, output_path, fs0, dirs0,
                   prev, other,
                   csvVars, exc, http, spark>>

----------------------------------------------------------------------------
(* etl/pandas_runner.py: run_pandas_etl *)

\* the missing value of a DataFrame cell
NaN == <<"NaN">>

\* the texts pd.read_csv reads as a missing value
PandasNA ==
    { <<>>,
      <<"n", "u", "l", "l">>,
      <<"N", "U", "L", "L">>,
      <<"N", "A">>,
      <<"N", "a", "N">>,
      <<"n", "a", "n">> }

\* a parsed row: as many cells as the header has columns, NaN for the
\* cells the line does not have and for the texts of PandasNA
PandasRow(columns, line) ==
    [i \in 1..Len(columns) |->
        IF i > Len(line) THEN NaN
        ELSE IF line[i] \in PandasNA THEN NaN
        ELSE line[i]]

RECURSIVE PandasRows(_, _)
PandasRows(columns, lines) ==
    IF lines = <<>> THEN <<>>
    ELSE IF Head(lines) = <<>>
    THEN PandasRows(columns, Tail(lines))     \* a blank line is skipped
    ELSE <<PandasRow(columns, Head(lines))>> \o PandasRows(columns, Tail(lines))

\* pd.read_csv(input_path) of a file with at least a header line
ReadCsv(content) ==
    [columns |-> Head(content),
     rows |-> PandasRows(Head(content), Tail(content))]

RECURSIVE NotNaRows(_, _)
NotNaRows(rows, k) ==
    IF rows = <<>> THEN <<>>
    ELSE IF Head(rows)[k] = NaN THEN NotNaRows(Tail(rows), k)
    ELSE <<Head(rows)>> \o NotNaRows(Tail(rows), k)

\* df.dropna(subset=['ImageID']) of a frame that has the column
DropNa(df, index) ==
    [columns |-> df.columns, rows |-> NotNaRows(df.rows, index + 1)]

\* df.head(5).to_dict(orient='records')
HeadRecords(df) ==
    [n \in 1..(IF Len(df.rows) < 5 THEN Len(df.rows) ELSE 5) |->
        [col \in Range(df.columns) |->
            df.rows[n][CHOOSE k \in 1..Len(df.columns) :
                          /\ df.columns[k] = col
                          /\ \A j \in (k + 1)..Len(df.columns) :
                                df.columns[j] # col]]]

\* the statistics of the pandas runner (lines 90-95)
PandasStatistics(initial, transformed, validated) ==
    [initial_count |-> initial,
     transformed_count |-> transformed,
     filtered_count |-> initial - transformed,
     validated_count |-> validated]

PandasSuccess(initial, transformed, validated, sample, out) ==
    [success |-> TRUE,
     timestamp |-> now,
     statistics |-> PandasStatistics(initial, transformed, validated),
     sample_rows |-> sample,
     output_path |-> out]

\* lines 28-50: the defaults, the existence check and the output directory
PandasPrepare ==
    /\ pc = "prepare"
    /\ entry = "run_pandas_etl"
    /\ LET inp == IF input_path = None THEN DefaultInput ELSE input_path
           out == IF output_path = None THEN ParquetPath(now) ELSE output_path
           outcome == PrepareOutcome(inp, Dirname(out))
       IN  /\ input_path' = inp
           /\ IF outcome = "missing"
              THEN /\ result' = Failure("Input file does not exist")
                   /\ pc' = "returned"
                   /\ UNCHANGED <<dirs, output_path, exc>>
              ELSE /\ output_path' = out
                   /\ IF outcome # "ok"
                      THEN /\ exc' = outcome
                           /\ pc' = "raised"
                           /\ UNCHANGED <<dirs, result>>
                      ELSE /\ dirs' = dirs \cup Ancestors(Dirname(out))
                           /\ pc' = "pandas"
                           /\ UNCHANGED <<result, exc>>
    /\ UNCHANGED <<fs, writable, now, runs, entry, fs0, dirs0, prev, other, csvVars,
                   http, spark>>

\* lines 52-106: read, drop the rows without ImageID, write the Parquet
\* file, read it back and report
PandasRun ==
    /\ pc = "pandas"
    /\ LET content == fs[input_path]
       IN  IF content = <<>>
           THEN \* pd.read_csv raises EmptyDataError
                /\ result' = Failure("EmptyDataError")
                /\ UNCHANGED <<fs, csvVars>>
           ELSE LET df == ReadCsv(content)
                    index == ListIndex(df.columns, ImageID)
                    kept == DropNa(df, index)
                    stored == <<kept.columns>> \o kept.rows
                    validation_df == kept
                IN  IF index = ValueError
                    THEN \* df.dropna raises KeyError
                         /\ result' = Failure("KeyError")
                         /\ UNCHANGED <<fs, csvVars>>
                    ELSE IF ~writable
                    THEN \* df.to_parquet raises
                         /\ result' = Failure("PermissionError")
                         /\ UNCHANGED <<fs, csvVars>>
                    ELSE /\ fs' = WriteFile(fs, output_path, stored)
                         /\ header' = df.columns
                         /\ imageid_index' = index
                         /\ initial_count' = Len(df.rows)
                         /\ transformed_count' = Len(kept.rows)
                         /\ sample_rows' = HeadRecords(validation_df)
                         /\ result' = PandasSuccess(Len(df.rows), Len(kept.rows),
                                                    Len(validation_df.rows),
                                                    HeadRecords(validation_df),
                                                    output_path)
                         /\ UNCHANGED <<reader, filtered_count>>
    /\ pc' = "returned"
    /\ UNCHANGED <<dirs, writable, now, runs, entry, input_path, output_path,
                   fs0, dirs0, prev, other, exc, http, spark>>

----------------------------------------------------------------------------
(* main.py: the Flask routes that run the pipeline *)

Routes == {"api_run_etl", "run_etl"}

\* /api/run-etl, lines 252-272: the status and the JSON body
ApiResponse(res, raisedExc) ==
    IF raisedExc # ""
    THEN [status |-> 500, body |-> [success |-> FALSE, error |-> raisedExc]]
    ELSE IF res.success
    THEN [status |-> 200, body |-> res]
    ELSE [status |-> 500, body |-> res]

\* /run-etl, lines 275-305: the page is rendered with the default status
PageResponse(res, raisedExc) ==
    IF raisedExc # ""
    THEN [status |-> 200,
          body |-> [alert_class |-> "alert-danger", status_message |-> raisedExc]]
    ELSE IF res.success
    THEN [status |-> 200,
          body |-> [alert_class |-> "alert-success",
                    status_message |-> "ETL completed successfully!"]]
    ELSE [status |-> 200,
          body |-> [alert_class |-> "alert-danger", status_message |-> res.error]]

\* the route answers once run_csv_etl has returned or raised
RouteRespond ==
    /\ pc \in {"returned", "raised"}
    /\ entry \in Routes
    /\ http' = IF entry = "api_run_etl" THEN ApiResponse(result, exc)
               ELSE PageResponse(result, exc)
    /\ pc' = "responded"
    /\ UNCHANGED <<envVars, runs, entry, input_path, output_path, fs0, dirs0,
                   prev, other,
                   csvVars, result, exc, spark>>

----------------------------------------------------------------------------
(* etl/ingest.py and its orchestrators etl/run.py, etl/dag.py and          *)
(* etl/simple_runner.py                                                    *)

SparkEntries == {"run_etl_pipeline", "etl_pipeline", "run_simple_etl"}

\* the entry points whose body runs inside try/except Exception
Guarded == {"run_etl_pipeline", "run_simple_etl"}

GeDir == Dir("great_expectations", NoTs)

\* a parsed row of spark.read.option("header", "true").csv: null (NaN here)
\* for the cells the line does not have and for the empty text
SparkRow(columns, line) ==
    [i \in 1..Len(columns) |->
        IF i > Len(line) THEN NaN
        ELSE IF line[i] = <<>> THEN NaN
        ELSE line[i]]

RECURSIVE SparkRows(_, _)
SparkRows(columns, lines) ==
    IF lines = <<>> THEN <<>>
    ELSE IF Head(lines) = <<>>
    THEN SparkRows(columns, Tail(lines))
    ELSE <<SparkRow(columns, Head(lines))>> \o SparkRows(columns, Tail(lines))

\* the three rules of the suite the spec names (expectations.py 101-129)
column_list == <<ImageID, LabelName, Confidence>>

ValidationSuccess(stored) ==
    /\ Head(stored) = column_list
    /\ \A i \in 2..Len(stored) :
          stored[i][ListIndex(column_list, ImageID) + 1] # NaN
    /\ Len(stored) - 1 >= 1

\* lines 36-45 of run.py, 100-109 of dag.py, 32-41 of simple_runner.py
SparkPrepare ==
    /\ pc = "prepare"
    /\ entry \in SparkEntries
    /\ input_path' = IF input_path = None THEN DefaultInput ELSE input_path
    /\ output_path' = IF output_path = None THEN ParquetPath(now) ELSE output_path
    /\ pc' = "ingest"
    /\ UNCHANGED <<envVars, runs, entry, fs0, dirs0, prev, other, csvVars, outVars>>

\* ingest(input_path, output_path), ingest.py 46-90; an exception leaves
\* ingest and is caught by the orchestrator only if its body is guarded
Ingest ==
    /\ pc = "ingest"
    /\ LET failure ==
               IF input_path \notin DOMAIN fs THEN "FileNotFoundError"
               ELSE IF Makedirs(Dirname(output_path)) # "ok"
               THEN Makedirs(Dirname(output_path))
               ELSE IF fs[input_path] = <<>> THEN "AnalysisException"
               ELSE IF ListIndex(Head(fs[input_path]), ImageID) = ValueError
               THEN "AnalysisException"
               ELSE IF ~writable THEN "PermissionError"
               ELSE ""
           started == input_path \in DOMAIN fs
                      /\ Makedirs(Dirname(output_path)) = "ok"
       IN  /\ spark' = IF started THEN "active" ELSE spark
           /\ dirs' = IF started THEN dirs \cup Ancestors(Dirname(output_path))
                      ELSE dirs
           /\ IF failure # ""
              THEN /\ IF entry \in Guarded
                      THEN /\ result' = [value |-> FALSE]
                           /\ pc' = "returned"
                           /\ UNCHANGED exc
                      ELSE /\ exc' = failure
                           /\ pc' = "raised"
                           /\ UNCHANGED result
                   /\ UNCHANGED <<fs, csvVars>>
              ELSE LET columns == Head(fs[input_path])
                       df == SparkRows(columns, Tail(fs[input_path]))
                       filtered_df ==
                           NotNaRows(df, ListIndex(columns, ImageID) + 1)
                   IN  /\ fs' = WriteFile(fs, output_path,
                                          <<columns>> \o filtered_df)
                       /\ header' = columns
                       /\ initial_count' = Len(df)
                       /\ transformed_count' = Len(filtered_df)
                       /\ pc' = IF entry = "run_simple_etl" THEN "simple"
                                ELSE "setup"
                       /\ UNCHANGED <<reader, imageid_index, filtered_count,
                                      sample_rows, result, exc>>
    /\ UNCHANGED <<writable, now, runs, entry, input_path, output_path,
                   fs0, dirs0, prev, other, http>>

\* setup_default_expectations_suite(): the Great Expectations directory is
\* created under the working directory (expectations.py 31-37, 164-187)
SetupExpectations ==
    /\ pc = "setup"
    /\ IF Makedirs(GeDir) # "ok"
       THEN /\ IF entry \in Guarded
               THEN /\ result' = [value |-> FALSE]
                    /\ pc' = "returned"
                    /\ UNCHANGED exc
               ELSE /\ exc' = Makedirs(GeDir)
                    /\ pc' = "raised"
                    /\ UNCHANGED result
            /\ UNCHANGED dirs
       ELSE /\ dirs' = dirs \cup {GeDir}
            /\ pc' = "validate"
            /\ UNCHANGED <<result, exc>>
    /\ UNCHANGED <<fs, writable, now, runs, entry, input_path, output_path,
                   fs0, dirs0, prev, other, csvVars, http, spark>>

\* a validation step that does not look at the verdict
ValidateData_Unchecked ==
    /\ pc = "validate"
    /\ spark' = "stopped"
    /\ result' = [value |-> TRUE]
    /\ pc' = "returned"
    /\ UNCHANGED <<envVars, runs, entry, input_path, output_path, fs0, dirs0,
                   prev, other,
                   csvVars, exc, http>>

\* the validation and the end of the run: run.py 56-79, dag.py 117-125
\* with validate_data of dag.py 66-82
ValidateData ==
    /\ pc = "validate"
    /\ IF ValidationSuccess(fs[output_path])
       THEN /\ spark' = "stopped"
            /\ result' = [value |-> TRUE]
            /\ pc' = "returned"
            /\ UNCHANGED exc
       ELSE /\ IF entry \in Guarded
               THEN /\ result' = [value |-> FALSE]
                    /\ pc' = "returned"
                    /\ UNCHANGED exc
               ELSE /\ exc' = "Exception"
                    /\ pc' = "raised"
                    /\ UNCHANGED result
            /\ UNCHANGED spark
    /\ UNCHANGED <<envVars, runs, entry, input_path, output_path, fs0, dirs0,
                   prev, other,
                   csvVars, http>>

\* simple_runner.py 48-67: the rows are counted, a null ImageID is only
\* logged, the session is stopped and True is returned
SimpleValidate ==
    /\ pc = "simple"
    /\ spark' = "stopped"
    /\ result' = [value |-> TRUE]
    /\ pc' = "returned"
    /\ UNCHANGED <<envVars, runs, entry, input_path, output_path, fs0, dirs0,
                   prev, other,
                   csvVars, exc, http>>

----------------------------------------------------------------------------
(* Inputs *)

\* the data rows the input tables are made of: an id with a leading blank,
\* a row whose first field is whitespace only and whose second field is
\* empty, and a row shorter than the header
RowKinds ==
    { << <<" ", "a">>, <<"x", " ">> >>,
      << <<" ">>, <<>> >>,
      << <<"b">> >> }

Headers ==
    { <<ImageID, LabelName>>,
      <<LabelName, ImageID>>,
      <<LabelName, Confidence>> }

\* the tables with a header of hs and at most n data rows of kinds
Tables(hs, kinds, n) ==
    UNION { { <<h>> \o rows : rows \in [1..k -> kinds] } :
            <<h, k>> \in hs \X (0..n) }

\* the tables that may be at the input path, and the file with no line
InputTables(hs, kinds, n) == Tables(hs, kinds, n) \cup {<<>>}

NoFiles == [p \in {} |-> <<>>]

InitCall ==
    /\ now = 0
    /\ runs = 0
    /\ pc = "idle"
    /\ entry = ""
    /\ input_path = None
    /\ output_path = None
    /\ reader = <<>>
    /\ header = <<>>
    /\ imageid_index = ValueError
    /\ initial_count = 0
    /\ transformed_count = 0
    /\ filtered_count = 0
    /\ sample_rows = <<>>
    /\ result = Pending
    /\ exc = ""
    /\ http = NoResponse
    /\ spark = "none"
    /\ fs0 = fs
    /\ dirs0 = dirs
    /\ prev = [entry |-> "", output_path |-> None, result |-> Pending,
               exc |-> "", fs0 |-> fs]
    /\ other = Context

----------------------------------------------------------------------------
(* Spec: one default invocation of a runner in a writable working          *)
(* directory, over every input table with at most MaxRows data rows        *)

Init ==
    /\ \/ fs = NoFiles
       \/ \E t \in InputTables(Headers, RowKinds, MaxRows) :
             fs = WriteFile(NoFiles, DefaultInput, t)
    /\ dirs = {DataDir}
    /\ writable = TRUE
    /\ InitCall

\* run_csv_etl() as main.py and the command line call it
RunCsvDefault ==
    /\ runs = 0
    /\ Invoke("run_csv_etl", None, None)

\* run_pandas_etl() as its command line calls it
RunPandasDefault ==
    /\ runs = 0
    /\ Invoke("run_pandas_etl", None, None)

Next ==
    \/ RunCsvDefault
    \/ CsvPrepare
    \/ CsvOpen
    \/ CsvRow
    \/ CsvCopy
    \/ CsvCopyWrite
    \/ RunPandasDefault
    \/ PandasPrepare
    \/ PandasRun

Spec == Init /\ [][Next]_vars

----------------------------------------------------------------------------
(* SpecEnv: one invocation of any entry point with any output argument, in *)
(* a working directory that may be read-only and may hold earlier output,  *)
(* over every input table with at most MaxEnvRows data rows                *)

EnvHeaders == Headers \cup {column_list}

EnvRowKinds ==
    RowKinds \cup { << <<"i", "1">>, <<"c", "a", "t">>, <<"0", ".", "9">> >>,
                    << <<"n", "u", "l", "l">>, <<"d">> >> }

\* what an earlier run left at an output location
OldOutput ==
    << <<ImageID, LabelName>>, << <<"o", "l", "d">>, <<"z">> >> >>

ElsewherePath == Path(ElsewhereDir, "result.csv", NoTs)
BarePath == Path(EmptyDir, "result.csv", NoTs)

\* the output_path arguments of the direct calls
OutputArgs == {None, ElsewherePath, BarePath, fixed_output_path, DefaultInput}

InitEnv ==
    /\ \E old \in BOOLEAN :
          LET before == IF old
                        THEN WriteFile(WriteFile(NoFiles, ElsewherePath, OldOutput),
                                       fixed_output_path, OldOutput)
                        ELSE NoFiles
          IN  /\ \/ fs = before
                 \/ \E t \in InputTables(EnvHeaders, EnvRowKinds, MaxEnvRows) :
                       fs = WriteFile(before, DefaultInput, t)
              /\ dirs = IF old THEN {DataDir, OutputRoot, ElsewhereDir}
                        ELSE {DataDir}
    /\ writable \in BOOLEAN
    /\ InitCall

CallCsv ==
    /\ runs = 0
    /\ \E out \in OutputArgs : Invoke("run_csv_etl", None, out)

CallPandas ==
    /\ runs = 0
    /\ \E out \in {None, ElsewherePath, BarePath} :
          Invoke("run_pandas_etl", None, out)

CallRoute ==
    /\ runs = 0
    /\ \E route \in Routes : Invoke(route, None, None)

CallSpark ==
    /\ runs = 0
    /\ \E e \in SparkEntries, out \in {None, BarePath, ElsewherePath} :
          Invoke(e, None, out)

NextEnv ==
    \/ CallCsv
    \/ CallPandas
    \/ CallRoute
    \/ CallSpark
    \/ CsvPrepare
    \/ CsvOpen
    \/ CsvRow
    \/ CsvIOError
    \/ CsvCopy
    \/ CsvCopyWrite
    \/ PandasPrepare
    \/ PandasRun
    \/ RouteRespond
    \/ SparkPrepare
    \/ Ingest
    \/ SetupExpectations
    \/ ValidateData
    \/ SimpleValidate

SpecEnv == InitEnv /\ [][NextEnv]_vars

----------------------------------------------------------------------------
(* SpecSeq: successive invocations of run_csv_etl by one caller, with the  *)
(* clock of the timestamps, over every input table with at most            *)
(* MaxSeqRows data rows                                                    *)

MaxRuns == 2
MaxTime == 1
MaxSeqRows == 1

\* the output_path arguments of the successive calls
SeqOutputArgs == {None, ElsewherePath, fixed_output_path, DefaultInput}

InitSeq ==
    /\ \/ fs = NoFiles
       \/ \E t \in InputTables(Headers, RowKinds, MaxSeqRows) :
             fs = WriteFile(NoFiles, DefaultInput, t)
    /\ dirs = {DataDir, OutputRoot}
    /\ writable = TRUE
    /\ InitCall

CallCsvSeq ==
    /\ runs < MaxRuns
    /\ \E out \in SeqOutputArgs : Invoke("run_csv_etl", None, out)

\* the return statement gives the control back to the caller
ReturnToCaller ==
    /\ pc \in {"returned", "raised"}
    /\ pc' = "idle"
    /\ UNCHANGED <<envVars, runs, entry, input_path, output_path, fs0, dirs0,
                   prev, other, csvVars, outVars>>

\* datetime.now() has a resolution of one second in strftime("%Y%m%d_%H%M%S"):
\* a second passes
Tick ==
    /\ now < MaxTime
    /\ now' = now + 1
    /\ UNCHANGED <<fs, dirs, writable, callVars, csvVars, outVars>>

NextSeq ==
    \/ CallCsvSeq
    \/ CsvPrepare
    \/ CsvOpen
    \/ CsvRow
    \/ CsvCopy
    \/ CsvCopyWrite
    \/ ReturnToCaller
    \/ Tick

SpecSeq == InitSeq /\ [][NextSeq]_vars

----------------------------------------------------------------------------
(* SpecConc: two threads that each invoke run_csv_etl once, with distinct  *)
(* explicit output locations, on two input files with at most MaxConcRows  *)
(* data rows each; the steps of the two runs interleave                    *)

MaxConcRows == 1

AltInput == Path(DataDir, "other.csv", NoTs)
SecondPath == Path(ElsewhereDir, "second.csv", NoTs)

\* the arguments of the two calls: each has its own input file and its own
\* output location
ConcArgs == {<<DefaultInput, ElsewherePath>>, <<AltInput, SecondPath>>}

InitConc ==
    /\ \E t1, t2 \in InputTables(Headers, RowKinds, MaxConcRows) :
          fs = WriteFile(WriteFile(NoFiles, DefaultInput, t1), AltInput, t2)
    /\ dirs = {DataDir, OutputRoot}
    /\ writable = TRUE
    /\ InitCall

\* a thread calls run_csv_etl with an output location the other thread was
\* not given
CallCsvConc ==
    \E args \in ConcArgs :
        /\ args[2] # other.output_path
        /\ Invoke("run_csv_etl", args[1], args[2])

\* the scheduler suspends the running thread and resumes the other one
Switch ==
    /\ other' = Context
    /\ pc' = other.pc
    /\ entry' = other.entry
    /\ input_path' = other.input_path
    /\ output_path' = other.output_path
    /\ fs0' = other.fs0
    /\ dirs0' = other.dirs0
    /\ prev' = other.prev
    /\ reader' = other.reader
    /\ header' = other.header
    /\ imageid_index' = other.imageid_index
    /\ initial_count' = other.initial_count
    /\ transformed_count' = other.transformed_count
    /\ filtered_count' = other.filtered_count
    /\ sample_rows' = other.sample_rows
    /\ result' = other.result
    /\ exc' = other.exc
    /\ http' = other.http
    /\ spark' = other.spark
    /\ UNCHANGED <<envVars, runs>>

NextConc ==
    \/ CallCsvConc
    \/ CsvPrepare
    \/ CsvOpen
    \/ CsvRow
    \/ CsvCopy
    \/ CsvCopyWrite
    \/ Switch

SpecConc == InitConc /\ [][NextConc]_vars

----------------------------------------------------------------------------
(* Vocabulary of the properties *)

\* the sample limit the specification names
SampleLimit == 5

\* the runner returned a success dictionary
Succeeded ==
    /\ pc \in {"returned", "responded"}
    /\ "success" \in DOMAIN result
    /\ result.success

\* the runner returned a failure dictionary
Failed ==
    /\ pc \in {"returned", "responded"}
    /\ "success" \in DOMAIN result
    /\ ~result.success

\* the input table of the invocation, when the input file has a header
HasTable == DefaultInput \in DOMAIN fs0 /\ fs0[DefaultInput] # <<>>
InputHeader == Head(fs0[DefaultInput])
InputRows == Tail(fs0[DefaultInput])

\* the ImageID value of a row is present and has a non-whitespace character
KeyNonBlank(hdr, row) ==
    \E k \in 1..Len(hdr) :
        /\ hdr[k] = ImageID
        /\ \A j \in 1..(k - 1) : hdr[j] # ImageID
        /\ k <= Len(row)
        /\ \E i \in 1..Len(row[k]) : row[k][i] \notin {" ", "\t"}

InputRowPasses(row) == KeyNonBlank(InputHeader, row)

\* the rows of the input the loop has consumed so far
Consumed == SubSeq(InputRows, 1, Len(InputRows) - Len(reader))

Min(a, b) == IF a < b THEN a ELSE b

----------------------------------------------------------------------------
(* Properties of the CSV runner, checked under Spec *)

\* C1: at every point of the loop of run_csv_etl and at its end, the rows
\* counted in transformed_count and written to the output are exactly the
\* consumed rows whose ImageID position is inside the row and whose ImageID
\* value has a non-whitespace character, and the rows counted in
\* filtered_count are exactly the other consumed rows (absent, empty or
\* all-whitespace ImageID).
C1_AcceptedIffKeyNonBlank ==
    (entry = "run_csv_etl" /\ pc = "rows") =>
        LET passing == {k \in 1..Len(Consumed) : InputRowPasses(Consumed[k])}
            failing == {k \in 1..Len(Consumed) : ~InputRowPasses(Consumed[k])}
        IN  /\ transformed_count = Cardinality(passing)
            /\ filtered_count = Cardinality(failing)
            /\ Len(fs[output_path]) - 1 = Cardinality(passing)
            /\ \A i \in 2..Len(fs[output_path]) :
                  InputRowPasses(fs[output_path][i])

\* a run has counted an accepted row whose id has a leading blank, an
\* accepted short row and a rejected whitespace-only id
C1_Witness ==
    /\ entry = "run_csv_etl"
    /\ pc = "rows"
    /\ reader = <<>>
    /\ InputHeader[1] = ImageID
    /\ transformed_count >= 2
    /\ filtered_count >= 1
    /\ \E k \in 1..Len(Consumed) : Consumed[k][1] = <<" ", "a">>
    /\ \E k \in 1..Len(Consumed) : Consumed[k][1] = <<" ">>
    /\ \E k \in 1..Len(Consumed) : Len(Consumed[k]) = 1

\* C2: after every processed record of run_csv_etl, and in the statistics
\* of every success dictionary of run_csv_etl and run_pandas_etl,
\* initial_count = transformed_count + filtered_count.
C2_CountsAddUp ==
    /\ (entry = "run_csv_etl" /\ pc \in {"rows", "returned"}) =>
          initial_count = transformed_count + filtered_count
    /\ Succeeded =>
          result.statistics.initial_count =
              result.statistics.transformed_count
                  + result.statistics.filtered_count

\* a run_csv_etl success whose three counters are all positive
C2_Witness ==
    /\ entry = "run_csv_etl"
    /\ Succeeded
    /\ result.statistics.transformed_count >= 2
    /\ result.statistics.filtered_count >= 1
    /\ result.statistics.initial_count >= 3

\* C3: when run_csv_etl succeeds, the output file holds the input header
\* followed by the input rows that pass the ImageID rule, each unmodified,
\* in input order, and nothing else.
C3_OutputIsHeaderPlusAccepted ==
    (entry = "run_csv_etl" /\ Succeeded) =>
        fs[result.output_path] =
            <<InputHeader>> \o SelectSeq(InputRows, InputRowPasses)

\* a success that wrote two different accepted rows and dropped a row
\* between them
C3_Witness ==
    /\ entry = "run_csv_etl"
    /\ Succeeded
    /\ Len(InputRows) >= 3
    /\ InputRowPasses(InputRows[1])
    /\ ~InputRowPasses(InputRows[2])
    /\ InputRowPasses(InputRows[3])
    /\ InputRows[1] # InputRows[3]

\* C7: at every point of run_csv_etl the sample holds
\* min(5, transformed_count) entries, entry i being the i-th accepted row of
\* the input with every header column (the empty text for the positions the
\* row does not have); the returned sample_rows has that length too.
C7_SampleIsFirstAccepted ==
    /\ (entry = "run_csv_etl" /\ pc = "rows") =>
          LET accepted == SelectSeq(Consumed, InputRowPasses)
          IN  /\ Len(sample_rows) = Min(SampleLimit, transformed_count)
              /\ \A i \in 1..Len(sample_rows) :
                    \A k \in 1..Len(InputHeader) :
                        sample_rows[i][InputHeader[k]] =
                            IF k <= Len(accepted[i]) THEN accepted[i][k]
                            ELSE <<>>
    /\ (entry = "run_csv_etl" /\ Succeeded) =>
          /\ result.sample_rows = sample_rows
          /\ Len(result.sample_rows) =
                Min(SampleLimit, result.statistics.transformed_count)

\* a success with more accepted rows than the sample holds
C7_Witness ==
    /\ entry = "run_csv_etl"
    /\ Succeeded
    /\ result.statistics.transformed_count > SampleLimit
    /\ Len(result.sample_rows) = SampleLimit

\* C8: run_csv_etl on a header that has ImageID and no data row returns
\* success with initial_count = transformed_count = filtered_count = 0, an
\* empty sample and an output file holding the header only.
C8_EmptyInputSucceeds ==
    ( /\ entry = "run_csv_etl"
      /\ pc = "returned"
      /\ HasTable
      /\ InputRows = <<>>
      /\ \E k \in 1..Len(InputHeader) : InputHeader[k] = ImageID ) =>
        /\ Succeeded
        /\ result.statistics =
              [initial_count |-> 0, transformed_count |-> 0, filtered_count |-> 0]
        /\ result.sample_rows = <<>>
        /\ fs[result.output_path] = <<InputHeader>>

\* a run over a header-only input has returned
C8_Witness ==
    /\ entry = "run_csv_etl"
    /\ pc = "returned"
    /\ HasTable
    /\ InputRows = <<>>
    /\ InputHeader = <<LabelName, ImageID>>
    /\ Succeeded

\* a row with the empty text at the positions of the header it lacks
Padded(hdr, row) ==
    [i \in 1..Len(hdr) |-> IF i <= Len(row) THEN row[i] ELSE <<>>]

\* the consumed rows that have fewer fields than the header
ShortRows == {k \in 1..Len(Consumed) : Len(Consumed[k]) < Len(InputHeader)}

\* C19: a row with fewer fields than the header is read and counted in
\* initial_count like any other, and it is accepted exactly when the row
\* padded with empty texts up to the header has a non-blank ImageID; every
\* entry of the sample has exactly the header's fields as its keys and
\* maps each to the value of the accepted row it was taken from, the empty
\* text for the positions at or beyond the length of that row.
C19_ShortRowsPadded ==
    (entry = "run_csv_etl" /\ pc = "rows") =>
        /\ initial_count = Len(Consumed)
        /\ filtered_count = initial_count - transformed_count
        /\ transformed_count =
              Cardinality({k \in 1..Len(Consumed) :
                  KeyNonBlank(InputHeader, Padded(InputHeader, Consumed[k]))})
        /\ \A j \in 1..Len(sample_rows) :
              /\ DOMAIN sample_rows[j] = Range(InputHeader)
              /\ \A i \in 1..Len(InputHeader) :
                    sample_rows[j][InputHeader[i]] =
                        Padded(InputHeader, fs[output_path][j + 1])[i]

\* the loop has ended after it accepted and sampled a row shorter than the
\* header, whose missing field is the empty text in the sample
C19_Witness ==
    /\ entry = "run_csv_etl"
    /\ pc = "rows"
    /\ reader = <<>>
    /\ InputHeader = <<ImageID, LabelName>>
    /\ ShortRows # {}
    /\ \E j \in 1..Len(sample_rows) :
          /\ Len(fs[output_path][j + 1]) = 1
          /\ sample_rows[j][LabelName] = <<>>
          /\ sample_rows[j][ImageID] # <<>>

----------------------------------------------------------------------------
(* Properties of the entry points and their environment, checked under     *)
(* SpecEnv                                                                 *)

\* C4: when the input header has no ImageID field, run_csv_etl returns the
\* schema error before any record is processed, and the files are as they
\* were before the run: nothing is written to the output location and
\* earlier content there is not replaced.
C4_MissingKeyLeavesNoOutput ==
    ( /\ entry = "run_csv_etl"
      /\ pc = "returned"
      /\ HasTable
      /\ output_path # input_path
      /\ writable
      /\ \A k \in 1..Len(InputHeader) : InputHeader[k] # ImageID ) =>
        /\ Failed
        /\ result.error = "CSV file does not contain an 'ImageID' column"
        /\ initial_count = 0
        /\ fs = fs0

\* C5: when the input file does not exist, the run of every entry point
\* ends in a not-found failure, and at no point of it is a directory or a
\* file created or changed, nor a Spark session started.
C5_MissingInputCreatesNothing ==
    (DefaultInput \notin DOMAIN fs0) =>
        /\ fs = fs0
        /\ dirs = dirs0
        /\ spark = "none"
        /\ pc \notin {"open", "rows", "copy", "pandas", "setup", "validate",
                    "simple"}
        /\ (pc \in {"returned", "responded"}
              /\ entry \in CsvEntries \cup {"run_pandas_etl"}) =>
              /\ Failed
              /\ result.error = "Input file does not exist"
        /\ (pc = "returned" /\ entry \in Guarded) => result = [value |-> FALSE]
        /\ pc = "raised" =>
              (entry = "etl_pipeline" /\ exc = "FileNotFoundError")

\* an invocation with an output argument has ended on a missing input in a
\* working directory that could have been written
C5_Witness ==
    /\ DefaultInput \notin DOMAIN fs0
    /\ writable
    /\ OutputRoot \notin dirs0
    /\ entry = "run_csv_etl"
    /\ pc = "returned"
    /\ output_path = ElsewherePath

\* C6: no exception leaves run_csv_etl, run_pandas_etl, run_etl_pipeline or
\* etl_pipeline (stated here for the runs in a writable working directory,
\* where no call fails for lack of permission).
C6_NoExceptionEscapes ==
    (writable /\ entry \in {"run_csv_etl", "run_pandas_etl",
                             "run_etl_pipeline", "etl_pipeline"}) =>
        (pc # "raised" /\ exc = "")

\* C9: on both routes that run the pipeline, a successful run is answered
\* with status 200 and a failed run (a failure dictionary or an exception)
\* with status 500 and the error message.
C9_StatusConvention ==
    (pc = "responded") =>
        IF Succeeded
        THEN http.status = 200
        ELSE /\ http.status = 500
             /\ \/ /\ "error" \in DOMAIN http.body
                   /\ http.body.error = (IF exc # "" THEN exc ELSE result.error)
                \/ /\ "status_message" \in DOMAIN http.body
                   /\ http.body.status_message =
                         (IF exc # "" THEN exc ELSE result.error)

\* the two shapes of a result
ResultShape(r) ==
    /\ "success" \in DOMAIN r
    /\ IF r.success
       THEN /\ DOMAIN r = {"success", "timestamp", "statistics", "sample_rows",
                           "output_path"}
            /\ {"initial_count", "transformed_count", "filtered_count"}
                  \subseteq DOMAIN r.statistics
       ELSE DOMAIN r = {"success", "error", "timestamp"}

\* C10: every dictionary returned by run_csv_etl and run_pandas_etl, and
\* every JSON body of /api/run-etl, has the success shape or the failure
\* shape (success false with both error and timestamp).
C10_ResultShapes ==
    /\ (pc \in {"returned", "responded"}
          /\ entry \in CsvEntries \cup {"run_pandas_etl"}) => ResultShape(result)
    /\ (pc = "responded" /\ entry = "api_run_etl") => ResultShape(http.body)

----------------------------------------------------------------------------
(* Properties of the Spark orchestrators, checked under SpecEnv *)

\* the stages of the validating orchestrators
Validating == {"run_etl_pipeline", "etl_pipeline"}

\* the output of the run is written in full: it holds the header of the
\* input and as many rows as ingest counted after the filter
OutputWritten ==
    /\ output_path \in DOMAIN fs
    /\ HasTable
    /\ Head(fs[output_path]) = InputHeader
    /\ Len(fs[output_path]) - 1 = transformed_count

\* C11: every step of a run of run_etl_pipeline (and of etl_pipeline) moves
\* along prepare, ingest, expectations setup, validation, end, or leaves
\* this line for the end with a failure; the validation is reached only
\* with the output written in full and the output is not touched after
\* that; True is returned only by the step that validates an output that
\* passes the rules; a failure of run_etl_pipeline is the value False,
\* never an exception, and after the end no stage of the run is executed.
C11_StageOrder ==
    [][ (entry \in Validating) =>
          /\ <<pc, pc'>> \in
                {<<"prepare", "ingest">>, <<"ingest", "setup">>,
                 <<"setup", "validate">>, <<"validate", "returned">>,
                 <<"ingest", "returned">>, <<"setup", "returned">>,
                 <<"ingest", "raised">>, <<"setup", "raised">>,
                 <<"validate", "raised">>}
          /\ (pc' \in {"setup", "validate"}) => OutputWritten'
          /\ (pc \in {"setup", "validate"}) =>
                fs'[output_path] = fs[output_path]
          /\ (pc' = "returned" /\ result'.value) =>
                /\ pc = "validate"
                /\ OutputWritten
                /\ ValidationSuccess(fs[output_path])
          /\ (pc' = "returned" /\ pc # "validate") => ~result'.value
          /\ (pc' = "raised") => entry = "etl_pipeline"
      ]_vars

\* run_etl_pipeline has returned True after a validation that passed
C11_Witness ==
    /\ entry = "run_etl_pipeline"
    /\ pc = "returned"
    /\ result = [value |-> TRUE]
    /\ ValidationSuccess(fs[output_path])
    /\ spark = "stopped"

\* C12: no orchestrator that validates its output (run_etl_pipeline,
\* etl_pipeline, run_simple_etl) reports success for an output with zero
\* rows: a run that accepted no record ends in a failure.
C12_ZeroRowsFail ==
    (entry \in SparkEntries /\ pc = "returned" /\ result = [value |-> TRUE]) =>
        /\ transformed_count >= 1
        /\ Len(fs[output_path]) - 1 >= 1

\* C13: the rules compare the column list of the output with the header
\* of the input of the run, so for every input header that contains ImageID
\* the output of a run that accepted at least one record passes the
\* column-list, non-null-key and row-count rules.
C13_OutputPassesRules ==
    ( /\ entry \in Validating
      /\ pc = "validate"
      /\ \E k \in 1..Len(InputHeader) : InputHeader[k] = ImageID
      /\ transformed_count >= 1 ) =>
        ValidationSuccess(fs[output_path])

----------------------------------------------------------------------------
(* Properties of the output locations of run_csv_etl *)

\* C14: a successful run of run_csv_etl leaves at the latest path a copy of
\* its output, and a failed run leaves the latest path as it was before the
\* run (so the latest path always holds the output of the most recent
\* successful run).
C14_LatestFollowsSuccess ==
    (entry = "run_csv_etl" /\ pc = "returned") =>
        IF Succeeded
        THEN /\ fixed_output_path \in DOMAIN fs
             /\ fs[fixed_output_path] = fs[result.output_path]
        ELSE /\ (fixed_output_path \in DOMAIN fs) <=>
                    (fixed_output_path \in DOMAIN fs0)
             /\ (fixed_output_path \in DOMAIN fs0) =>
                    fs[fixed_output_path] = fs0[fixed_output_path]

\* the location is one the runner chose itself: a timestamped directory
Defaulted(p) == p.dir.base = "data/output/csv_"

\* C15: two invocations of run_csv_etl that both leave the output location
\* to the runner are never given the same location: the location chosen
\* for a run differs from the one chosen for the run before it and its
\* directory did not exist before the run.
C15_FreshDefaultOutput ==
    ( /\ entry = "run_csv_etl"
      /\ pc = "open"
      /\ Defaulted(output_path)
      /\ prev.entry = "run_csv_etl"
      /\ Defaulted(prev.output_path) ) =>
        /\ output_path # prev.output_path
        /\ Dirname(output_path) \notin dirs0

\* what a result says apart from its timestamp
Outcome(r) ==
    IF "success" \notin DOMAIN r THEN r
    ELSE IF r.success
    THEN [success |-> TRUE, statistics |-> r.statistics,
          sample_rows |-> r.sample_rows, output_path |-> r.output_path]
    ELSE [success |-> FALSE, error |-> r.error]

\* the two file systems agree on the path
SameAt(f, g, p) ==
    /\ (p \in DOMAIN f) <=> (p \in DOMAIN g)
    /\ (p \in DOMAIN f) => f[p] = g[p]

\* C18: when run_csv_etl is invoked again with the output location that was
\* passed to the invocation before it and the input is as it was then, the
\* second run ends as the first did, with the same statistics and sample
\* (or the same error), and the output location and the latest path hold
\* what they held after the first run.
C18_RerunIdempotent ==
    ( /\ entry = "run_csv_etl"
      /\ pc \in {"returned", "raised"}
      /\ prev.entry = "run_csv_etl"
      /\ output_path # None
      /\ ~Defaulted(output_path)
      /\ prev.output_path = output_path
      /\ SameAt(fs0, prev.fs0, DefaultInput) ) =>
        /\ Outcome(result) = Outcome(prev.result)
        /\ exc = prev.exc
        /\ SameAt(fs, fs0, output_path)
        /\ SameAt(fs, fs0, fixed_output_path)

\* a second successful run has rewritten an output location that held the
\* accepted record of the first run
C18_Witness ==
    /\ entry = "run_csv_etl"
    /\ runs >= 2
    /\ pc = "returned"
    /\ output_path = ElsewherePath
    /\ prev.output_path = ElsewherePath
    /\ Succeeded
    /\ result.statistics.transformed_count >= 1
    /\ Len(fs0[ElsewherePath]) >= 2

----------------------------------------------------------------------------
(* Properties that compare the runners, checked under SpecEnv *)

\* the number of rows of the input whose ImageID is non-blank
ExpectedAccepted ==
    Cardinality({k \in 1..Len(InputRows) : InputRowPasses(InputRows[k])})

\* C17: run_csv_etl, run_pandas_etl and the Spark ingest accept the same
\* records of every input, those whose trimmed ImageID is non-empty (a
\* whitespace-only ImageID is rejected, the text null is accepted), and
\* report the same counts: all rows of the input as initial_count and the
\* accepted ones as transformed_count.
C17_SameFilterContract ==
    /\ (entry \in {"run_csv_etl", "run_pandas_etl"} /\ Succeeded) =>
          /\ result.statistics.initial_count = Len(InputRows)
          /\ result.statistics.transformed_count = ExpectedAccepted
          /\ result.statistics.filtered_count =
                Len(InputRows) - ExpectedAccepted
    /\ (entry \in SparkEntries /\ pc \in {"setup", "simple"}) =>
          /\ initial_count = Len(InputRows)
          /\ transformed_count = ExpectedAccepted

\* C20: when run_csv_etl fails after the loop over the records was entered
\* (the input or the output raises inside the loop, or the copy to the
\* latest path fails), the output location holds no data written by that
\* run: it is as it was before the run, and in particular it does not hold
\* the header followed by only some of the accepted records.
C20_NoPartialOutput ==
    ( /\ entry = "run_csv_etl"
      /\ pc = "returned"
      /\ Failed
      /\ imageid_index # ValueError ) =>
        /\ SameAt(fs, fs0, output_path)
        /\ ~ ( /\ output_path \in DOMAIN fs
               /\ fs[output_path] # <<>>
               /\ Head(fs[output_path]) = InputHeader
               /\ Len(fs[output_path]) - 1 < ExpectedAccepted )

----------------------------------------------------------------------------
(* Properties of concurrent invocations, checked under SpecConc *)

\* the rows of a table with a non-blank ImageID, in order
AloneAccepted(table) ==
    LET Passes(row) == KeyNonBlank(Head(table), row)
    IN  SelectSeq(Tail(table), Passes)

\* what run_csv_etl returns, apart from the timestamp, when it runs alone
\* on the files with the output directory and data/output in place
AloneOutcome(files, inp, out) ==
    IF inp \notin DOMAIN files
    THEN [success |-> FALSE, error |-> "Input file does not exist"]
    ELSE IF files[inp] = <<>> THEN [success |-> FALSE, error |-> ""]
    ELSE IF \A k \in 1..Len(Head(files[inp])) : Head(files[inp])[k] # ImageID
    THEN [success |-> FALSE,
          error |-> "CSV file does not contain an 'ImageID' column"]
    ELSE LET hdr == Head(files[inp])
             acc == AloneAccepted(files[inp])
         IN  [success |-> TRUE,
              statistics |->
                  [initial_count |-> Len(files[inp]) - 1,
                   transformed_count |-> Len(acc),
                   filtered_count |-> Len(files[inp]) - 1 - Len(acc)],
              sample_rows |->
                  [j \in 1..Min(SampleLimit, Len(acc)) |->
                      [col \in Range(hdr) |->
                          Padded(hdr, acc[j])[CHOOSE i \in 1..Len(hdr) :
                                                  hdr[i] = col]]],
              output_path |-> out]

\* what the output location holds after that run
AloneOutput(files, inp) ==
    IF files[inp] = <<>> THEN <<>>
    ELSE IF AloneOutcome(files, inp, None).success
    THEN <<Head(files[inp])>> \o AloneAccepted(files[inp])
    ELSE <<Head(files[inp])>>

\* C16: when two concurrent invocations of run_csv_etl with distinct output
\* locations have both returned, each has the result and has left at its
\* own output location the content it has when it runs alone, and the
\* latest path holds the whole output of one of the runs that succeeded,
\* never a mixture of the two.
C16_ConcurrentRunsIndependent ==
    (pc = "returned" /\ other.pc = "returned") =>
        /\ Outcome(result) = AloneOutcome(fs0, input_path, output_path)
        /\ Outcome(other.result) =
              AloneOutcome(other.fs0, other.input_path, other.output_path)
        /\ fs[output_path] = AloneOutput(fs0, input_path)
        /\ fs[other.output_path] = AloneOutput(other.fs0, other.input_path)
        /\ (result.success \/ other.result.success) =>
              /\ fixed_output_path \in DOMAIN fs
              /\ \/ result.success
                    /\ fs[fixed_output_path] = fs[output_path]
                 \/ other.result.success
                    /\ fs[fixed_output_path] = fs[other.output_path]

----------------------------------------------------------------------------
(* Properties of the overwriting of an output, checked under SpecEnv *)

\* the run has written its output in full: run_csv_etl has succeeded, or
\* the Spark ingest has returned
OutputComplete ==
    \/ entry = "run_csv_etl" /\ Succeeded
    \/ entry \in SparkEntries /\ pc \in {"setup", "validate", "simple"}

\* C21: when the output location held data before the run, a run that
\* completes leaves there the header of its input and exactly the records
\* it accepted, and none of the records the location held before, whether
\* the new output has fewer, as many or more records than the old one.
C21_OverwriteReplaces ==
    (OutputComplete /\ output_path \in DOMAIN fs0) =>
        /\ Head(fs[output_path]) = InputHeader
        /\ Len(fs[output_path]) - 1 = transformed_count
        /\ \A i \in 2..Len(fs[output_path]) :
              fs[output_path][i] \notin Range(Tail(fs0[output_path]))

\* run_csv_etl has succeeded with no accepted record at a location that
\* held a record of an earlier run
C21_Witness ==
    /\ entry = "run_csv_etl"
    /\ Succeeded
    /\ output_path = ElsewherePath
    /\ ElsewherePath \in DOMAIN fs0
    /\ Len(fs0[ElsewherePath]) = 2
    /\ Len(fs[ElsewherePath]) = 1

\* the Spark ingest has written more records than the location held
C21_WitnessSpark ==
    /\ entry \in SparkEntries
    /\ pc = "setup"
    /\ output_path = ElsewherePath
    /\ ElsewherePath \in DOMAIN fs0
    /\ Len(fs[ElsewherePath]) > Len(fs0[ElsewherePath])

----------------------------------------------------------------------------
(* Properties of the Spark session, checked under SpecEnv *)

\* C22: when a run of run_etl_pipeline, run_simple_etl or etl_pipeline
\* ends, by a return or by an exception, the Spark session it created has
\* been stopped: no ended run leaves an active session, on the success
\* path and on every failure path.
C22_SessionStopped ==
    (entry \in SparkEntries /\ pc \in {"returned", "raised"}) =>
        spark # "active"

====
